---- MODULE Spec2Model ----
(***************************************************************************)
(* Model of src/index.js: the /upload request handler (upload, conversion  *)
(* of the drawing through the remote service, parsing, classification by   *)
(* layer, setback check, cleanup of the temporary files, response).        *)
(*                                                                         *)
(* Numbers.  A JavaScript number is a record: NaN, or Num(v) with v an     *)
(* integer.  Entity fields are integers, or absent (the record has no such *)
(* key, as the JavaScript object has no such property).  width / 2 can be  *)
(* a half, so the axis gaps xDist and yDist are held in half units (twice  *)
(* the JavaScript value), and the value Math.sqrt(xDist**2 + yDist**2) is  *)
(* held by its radicand in quarter units: a distance d is Num(4 * d * d).  *)
(* Both encodings are strictly increasing on the non-negative numbers, so  *)
(* order and equality of distances are those of the JavaScript values.     *)
(***************************************************************************)
EXTENDS Integers, Sequences, FiniteSets

\* Longest entity list the parser returns in the model.
MaxEntities == 4

\* src/index.js:118
MIN_SETBACK_DISTANCE == 10

----------------------------------------------------------------------------
(* JavaScript numbers *)

NaN == [nan |-> TRUE, val |-> 0]

Num(v) == [nan |-> FALSE, val |-> v]

\* entity.key read as a number: an absent property is undefined, and
\* undefined in arithmetic is NaN.
Field(entity, key) == IF key \in DOMAIN entity THEN Num(entity[key]) ELSE NaN

Abs(n) == IF n < 0 THEN -n ELSE n

\* A distance d >= 0 in the encoding of calculateDistance's result.
Dist(d) == Num(4 * d * d)

----------------------------------------------------------------------------
(* calculateDistance, src/index.js:111-115 *)

\* Math.max(0, Math.abs(p1 - p2) - (s1 / 2 + s2 / 2)), in half units.
\* Any NaN operand makes every step NaN, Math.max(0, NaN) included.
AxisDistUnclamped(p1, p2, s1, s2) ==
    IF p1.nan \/ p2.nan \/ s1.nan \/ s2.nan
    THEN NaN
    ELSE Num(2 * Abs(p1.val - p2.val) - (s1.val + s2.val))

AxisDistSigned(p1, p2, s1, s2) ==
    IF p1.nan \/ p2.nan \/ s1.nan \/ s2.nan
    THEN NaN
    ELSE LET gap == 2 * (p1.val - p2.val) - (s1.val + s2.val)
         IN  Num(IF gap > 0 THEN gap ELSE 0)

AxisDist(p1, p2, s1, s2) ==
    IF p1.nan \/ p2.nan \/ s1.nan \/ s2.nan
    THEN NaN
    ELSE LET gap == 2 * Abs(p1.val - p2.val) - (s1.val + s2.val)
         IN  Num(IF gap > 0 THEN gap ELSE 0)

xDist(entity1, entity2) ==
    AxisDist(Field(entity1, "x"), Field(entity2, "x"),
             Field(entity1, "width"), Field(entity2, "width"))

yDist(entity1, entity2) ==
    AxisDist(Field(entity1, "y"), Field(entity2, "y"),
             Field(entity1, "height"), Field(entity2, "height"))

\* Math.sqrt(xDist ** 2 + yDist ** 2), held as 4 * distance ** 2.
calculateDistance(entity1, entity2) ==
    LET xd == xDist(entity1, entity2)
        yd == yDist(entity1, entity2)
    IN  IF xd.nan \/ yd.nan
        THEN NaN
        ELSE Num(xd.val * xd.val + yd.val * yd.val)

----------------------------------------------------------------------------
(* checkSetbackDistance, src/index.js:120-138 *)

\* distance >= MIN_SETBACK_DISTANCE; a comparison with NaN is false.
NotLessThan(distance, limit) ==
    distance.nan \/ distance.val >= 4 * limit * limit

StrictlyGreater(distance, limit) ==
    ~distance.nan /\ distance.val > 4 * limit * limit

GreaterOrEqual(distance, limit) ==
    ~distance.nan /\ distance.val >= 4 * limit * limit

\* The template literal of line 128, with the interpolated distance.
CompliantMessage(distance) ==
    <<"Building is ", distance, " feet away from boundary on one side.">>

NonCompliantMessage ==
    <<"Building does not meet the 10-ft setback requirement on any side.">>

VacuouslyCompliant == [compliant |-> TRUE, message |-> NonCompliantMessage]

NonCompliant == [compliant |-> FALSE, message |-> NonCompliantMessage]

\* The loops nested the other way round: boundaries outside, buildings
\* inside.
RECURSIVE SetbackLoopBoundaryMajor(_, _, _, _, _)
SetbackLoopBoundaryMajor(buildings, boundaries, i, j, seen) ==
    IF j > Len(boundaries)
    THEN [result |-> NonCompliant, evaluated |-> seen]
    ELSE IF i > Len(buildings)
    THEN SetbackLoopBoundaryMajor(buildings, boundaries, 1, j + 1, seen)
    ELSE LET distance == calculateDistance(buildings[i], boundaries[j])
             now == Append(seen, <<i, j>>)
         IN  IF GreaterOrEqual(distance, MIN_SETBACK_DISTANCE)
             THEN [result |-> [compliant |-> TRUE,
                               message |-> CompliantMessage(distance)],
                   evaluated |-> now]
             ELSE SetbackLoopBoundaryMajor(buildings, boundaries, i + 1, j, now)

\* The nested for-of loops from building i, boundary j on.  `seen` lists the
\* index pairs calculateDistance has been called on so far.
RECURSIVE SetbackLoop(_, _, _, _, _)
SetbackLoop(buildings, boundaries, i, j, seen) ==
    IF i > Len(buildings)
    THEN [result |-> NonCompliant, evaluated |-> seen]
    ELSE IF j > Len(boundaries)
    THEN SetbackLoop(buildings, boundaries, i + 1, 1, seen)
    ELSE LET distance == calculateDistance(buildings[i], boundaries[j])
             now == Append(seen, <<i, j>>)
         IN  IF GreaterOrEqual(distance, MIN_SETBACK_DISTANCE)
             THEN [result |-> [compliant |-> TRUE,
                               message |-> CompliantMessage(distance)],
                   evaluated |-> now]
             ELSE SetbackLoop(buildings, boundaries, i, j + 1, now)

checkSetbackTrace(buildings, boundaries) ==
    SetbackLoop(buildings, boundaries, 1, 1, <<>>)

checkSetbackDistance(buildings, boundaries) ==
    checkSetbackTrace(buildings, boundaries).result

----------------------------------------------------------------------------
(* The classification of validateDxfFile, src/index.js:86-97 *)

\* 'BUILDING' and 'BOUNDARY' compared without regard to case.
UpperCase(layer) ==
    CASE layer = "building" -> "BUILDING"
      [] layer = "boundary" -> "BOUNDARY"
      [] OTHER -> layer

RECURSIVE ClassifyIgnoringCase(_, _, _)
ClassifyIgnoringCase(entities, buildings, boundaries) ==
    IF entities = <<>>
    THEN [buildings |-> buildings, boundaries |-> boundaries]
    ELSE LET entity == Head(entities)
         IN  IF UpperCase(entity.layer) = "BUILDING"
             THEN ClassifyIgnoringCase(Tail(entities), Append(buildings, entity),
                                       boundaries)
             ELSE IF UpperCase(entity.layer) = "BOUNDARY"
             THEN ClassifyIgnoringCase(Tail(entities), buildings,
                                       Append(boundaries, entity))
             ELSE ClassifyIgnoringCase(Tail(entities), buildings, boundaries)

\* entities.forEach(...) from the first remaining entity on, pushing onto
\* the two arrays.
RECURSIVE Classify(_, _, _)
Classify(entities, buildings, boundaries) ==
    IF entities = <<>>
    THEN [buildings |-> buildings, boundaries |-> boundaries]
    ELSE LET entity == Head(entities)
         IN  IF entity.layer = "BUILDING"
             THEN Classify(Tail(entities), Append(buildings, entity), boundaries)
             ELSE IF entity.layer = "BOUNDARY"
             THEN Classify(Tail(entities), buildings, Append(boundaries, entity))
             ELSE Classify(Tail(entities), buildings, boundaries)

----------------------------------------------------------------------------
(* The converted file's path, src/index.js:65 *)

LowerCase(c) ==
    CASE c = "D" -> "d"
      [] c = "W" -> "w"
      [] c = "G" -> "g"
      [] OTHER -> c

\* inputFilePath.replace(/\.dwg$/i, '.dxf'); a path is a sequence of
\* characters.
ReplaceDwgSuffix(inputFilePath) ==
    LET n == Len(inputFilePath)
    IN  IF /\ n >= 4
           /\ inputFilePath[n - 3] = "."
           /\ LowerCase(inputFilePath[n - 2]) = "d"
           /\ LowerCase(inputFilePath[n - 1]) = "w"
           /\ LowerCase(inputFilePath[n]) = "g"
        THEN SubSeq(inputFilePath, 1, n - 4) \o <<".", "d", "x", "f">>
        ELSE inputFilePath

----------------------------------------------------------------------------
(* Inputs *)

\* Paths multer can hand over as req.file.path.  The names multer generates
\* carry no extension; the others stand for an upload stored under a name
\* that ends in .dwg, in either case.
Paths ==
    { <<"u", "/", "7", "c">>,
      <<"u", "/", "a", ".", "d", "w", "g">>,
      <<"u", "/", "b", ".", "D", "W", "G">> }

\* Position and extents of the entities the parser can return: a square at
\* the origin, a shape far to the right, a shape at distance exactly 10 from
\* the square, a shape of negative width, and a shape with no x.
Square == [x |-> 0, y |-> 0, width |-> 4, height |-> 4]

Far == [x |-> 20, y |-> 0, width |-> 3, height |-> 2]

AtTen == [x |-> 9, y |-> 11, width |-> 2, height |-> 2]

NegativeWidth == [x |-> 0, y |-> 0, width |-> -20, height |-> 4]

NoX == [y |-> 0, width |-> 4, height |-> 4]

WithLayer(layer, g) ==
    [k \in DOMAIN g \cup {"layer"} |-> IF k = "layer" THEN layer ELSE g[k]]

Entities ==
    { WithLayer("BUILDING", g) : g \in {Square, Far, NegativeWidth, NoX} }
    \cup { WithLayer("BOUNDARY", g) : g \in {Square, AtTen, NegativeWidth, NoX} }
    \cup { WithLayer("building", Far) }

EntityLists == UNION { [1..n -> Entities] : n \in 0..MaxEntities }

Undefined == [undefined |-> TRUE]

NoPath == <<>>

----------------------------------------------------------------------------
(* State of one /upload request, src/index.js:141-160 *)

VARIABLES
    pc,                \* where the handler is
    reqFile,           \* req.file, as multer left it
    files,             \* the paths that exist on disk
    dwgFilePath,       \* line 143
    outputFilePath,    \* line 65
    dxfFilePath,       \* line 146
    entities,          \* dxf.entities, line 86
    buildings,         \* line 87
    boundaries,        \* line 88
    evaluated,         \* index pairs calculateDistance was called on, line 123
    checkCalls,        \* calls of checkSetbackDistance, line 101
    validationResult,  \* line 149
    failure,           \* the collaborator that threw, if any
    responses          \* what res has sent

vars == <<pc, reqFile, files, dwgFilePath, outputFilePath, dxfFilePath,
          entities, buildings, boundaries, evaluated, checkCalls,
          validationResult, failure, responses>>

validationVars == <<entities, buildings, boundaries, evaluated, checkCalls,
                    validationResult>>

\* res.json(body), line 156
JsonResponse(body) == [status |-> 200, body |-> body]

\* res.json({ error }) with the status left at its default.
ErrorResponseDefaultStatus(message) == [status |-> 200, body |-> [error |-> message]]

\* res.status(500).json({ error: error.message }), line 158
ErrorResponse(message) == [status |-> 500, body |-> [error |-> message]]

\* fs.unlinkSync(path) on the set of existing paths: ENOENT when the path
\* does not exist.
UnlinkSync(fs, path) ==
    IF path \in fs
    THEN [threw |-> FALSE, files |-> fs \ {path}]
    ELSE [threw |-> TRUE, files |-> fs]

\* The handler's catch block: one error response, and the request is over.
Catch(who, message) ==
    /\ responses' = Append(responses, ErrorResponse(message))
    /\ failure' = who
    /\ pc' = "done"

Init ==
    /\ pc = "start"
    /\ reqFile \in {Undefined} \cup { [path |-> p] : p \in Paths }
    /\ files = IF reqFile = Undefined THEN {} ELSE {reqFile.path}
    /\ dwgFilePath = NoPath
    /\ outputFilePath = NoPath
    /\ dxfFilePath = NoPath
    /\ entities = <<>>
    /\ buildings = <<>>
    /\ boundaries = <<>>
    /\ evaluated = <<>>
    /\ checkCalls = 0
    /\ validationResult = Undefined
    /\ failure = "none"
    /\ responses = <<>>

\* Line 143 with no file in the request: req.file.path throws a TypeError.
HandlerNoFile ==
    /\ pc = "start"
    /\ reqFile = Undefined
    /\ Catch("request", <<"Cannot read properties of undefined">>)
    /\ UNCHANGED <<reqFile, files, dwgFilePath, outputFilePath, dxfFilePath,
                   validationVars>>

\* Lines 143-146 and 20: the handler calls convertDwgToDxf, which starts the
\* job creation and awaits it.
HandlerStart ==
    /\ pc = "start"
    /\ reqFile # Undefined
    /\ dwgFilePath' = reqFile.path
    /\ pc' = "create"
    /\ UNCHANGED <<reqFile, files, outputFilePath, dxfFilePath, validationVars,
                   failure, responses>>

\* Lines 40-56: the job exists; the file is posted to the upload form.
JobCreated ==
    /\ pc = "create"
    /\ pc' = "upload"
    /\ UNCHANGED <<reqFile, files, dwgFilePath, outputFilePath, dxfFilePath,
                   validationVars, failure, responses>>

\* Line 59: the upload is done; wait for the job.
FileUploaded ==
    /\ pc = "upload"
    /\ pc' = "wait"
    /\ UNCHANGED <<reqFile, files, dwgFilePath, outputFilePath, dxfFilePath,
                   validationVars, failure, responses>>

\* Lines 60-64: the job is complete; request the converted file.
JobCompleted ==
    /\ pc = "wait"
    /\ pc' = "download"
    /\ UNCHANGED <<reqFile, files, dwgFilePath, outputFilePath, dxfFilePath,
                   validationVars, failure, responses>>

\* Lines 65-72: the output path is computed and the download stream is piped
\* into a writer on it; the writer has not opened the file yet.
DownloadStarted ==
    /\ pc = "download"
    /\ outputFilePath' = ReplaceDwgSuffix(dwgFilePath)
    /\ pc' = "write"
    /\ UNCHANGED <<reqFile, files, dwgFilePath, dxfFilePath, validationVars,
                   failure, responses>>

\* Lines 19-64 throw (job creation, upload, wait or download): caught at
\* line 73, rethrown at line 75, caught by the handler at line 157.
ConversionThrows ==
    /\ pc \in {"create", "upload", "wait", "download"}
    /\ Catch("conversion", <<"Conversion error: ", pc>>)
    /\ UNCHANGED <<reqFile, files, dwgFilePath, outputFilePath, dxfFilePath,
                   validationVars>>

\* Line 66: the write stream opens the output path, which creates the file
\* (or truncates it when it is the uploaded file itself), in a turn of the
\* event loop before 'finish' or any later 'error'.
WriterOpened ==
    /\ pc = "write"
    /\ outputFilePath \notin files
    /\ files' = files \cup {outputFilePath}
    /\ UNCHANGED <<pc, reqFile, dwgFilePath, outputFilePath, dxfFilePath,
                   validationVars, failure, responses>>

\* Line 71: the writer fails, at the open (no file created) or after it; the
\* promise rejects with the writer's error, past the catch of line 73.
WriterError ==
    /\ pc = "write"
    /\ Catch("conversion", <<"write error">>)
    /\ UNCHANGED <<reqFile, files, dwgFilePath, outputFilePath, dxfFilePath,
                   validationVars>>

\* Line 70: the writer, its file open, finishes and convertDwgToDxf resolves
\* with the path (line 146).
WriterFinish ==
    /\ pc = "write"
    /\ outputFilePath \in files
    /\ dxfFilePath' = outputFilePath
    /\ pc' = "validate"
    /\ UNCHANGED <<reqFile, files, dwgFilePath, outputFilePath, validationVars,
                   failure, responses>>

\* Lines 83-106: reading or parsing throws; rethrown at line 106.
ValidateThrows ==
    /\ pc = "validate"
    /\ Catch("validation", <<"Error processing DXF file: ", "read or parse">>)
    /\ UNCHANGED <<reqFile, files, dwgFilePath, outputFilePath, dxfFilePath,
                   validationVars>>

\* Lines 81-104: the file is read and parsed into `parsed`, the entities are
\* classified and the setback is checked.
ValidateOk ==
    /\ pc = "validate"
    /\ dxfFilePath \in files
    /\ \E parsed \in EntityLists :
           LET groups == Classify(parsed, <<>>, <<>>)
               trace == checkSetbackTrace(groups.buildings, groups.boundaries)
           IN  /\ entities' = parsed
               /\ buildings' = groups.buildings
               /\ boundaries' = groups.boundaries
               /\ evaluated' = trace.evaluated
               /\ validationResult' =
                      [setbackCompliance |->
                          checkSetbackDistance(groups.buildings, groups.boundaries)]
    /\ checkCalls' = checkCalls + 1
    /\ pc' = "cleanup"
    /\ UNCHANGED <<reqFile, files, dwgFilePath, outputFilePath, dxfFilePath,
                   failure, responses>>

\* Lines 152-158: both files are unlinked and the result is sent; an unlink
\* that throws is caught at line 157.
Cleanup ==
    /\ pc = "cleanup"
    /\ LET first == UnlinkSync(files, dwgFilePath)
           second == UnlinkSync(first.files, dxfFilePath)
       IN  IF first.threw
           THEN /\ files' = first.files
                /\ Catch("cleanup", <<"ENOENT: no such file or directory, unlink ",
                                      dwgFilePath>>)
           ELSE IF second.threw
           THEN /\ files' = second.files
                /\ Catch("cleanup", <<"ENOENT: no such file or directory, unlink ",
                                      dxfFilePath>>)
           ELSE /\ files' = second.files
                /\ responses' = Append(responses, JsonResponse(validationResult))
                /\ pc' = "done"
                /\ UNCHANGED failure
    /\ UNCHANGED <<reqFile, dwgFilePath, outputFilePath, dxfFilePath,
                   validationVars>>

Next ==
    \/ HandlerNoFile
    \/ HandlerStart
    \/ JobCreated
    \/ FileUploaded
    \/ JobCompleted
    \/ DownloadStarted
    \/ ConversionThrows
    \/ WriterOpened
    \/ WriterError
    \/ WriterFinish
    \/ ValidateThrows
    \/ ValidateOk
    \/ Cleanup

Spec == Init /\ [][Next]_vars

----------------------------------------------------------------------------
(* Properties *)

NumericFields == {"x", "y", "width", "height"}

\* validateDxfFile has returned its result.
Validated == pc \in {"cleanup", "done"} /\ validationResult # Undefined

Verdict == validationResult.setbackCompliance

\* The distance is a number and at least the minimum setback.
Qualifies(distance) ==
    distance # NaN /\ distance.val >= Dist(MIN_SETBACK_DISTANCE).val

PairDistance(pair) == calculateDistance(buildings[pair[1]], boundaries[pair[2]])

AllPairs == (1..Len(buildings)) \X (1..Len(boundaries))

Malformed(entity) == \E k \in NumericFields : k \notin DOMAIN entity

MalformedPair(pair) ==
    Malformed(buildings[pair[1]]) \/ Malformed(boundaries[pair[2]])

SameGeometry(a, b) ==
    \A k \in NumericFields :
        /\ k \in DOMAIN a <=> k \in DOMAIN b
        /\ k \in DOMAIN a => a[k] = b[k]

NonNegativeExtents(entity) ==
    /\ ~Malformed(entity)
    /\ entity.width >= 0
    /\ entity.height >= 0

IsBuilding(entity) == entity.layer = "BUILDING"

IsBoundary(entity) == entity.layer = "BOUNDARY"

\* C1: the verdict is compliant exactly when some (building, boundary) pair
\* has a distance of at least 10; a distance of exactly 10 qualifies, and
\* pairs below 10 do not prevent it.
C1_CompliantIffSomePairQualifies ==
    Validated =>
        (Verdict.compliant <=> \E pair \in AllPairs : Qualifies(PairDistance(pair)))

\* A compliant verdict quoting a distance of exactly 10 while another pair
\* is closer than 10.
C1_Witness ==
    /\ Validated
    /\ Verdict.compliant
    /\ Verdict.message = CompliantMessage(Dist(10))
    /\ \E pair \in AllPairs : ~Qualifies(PairDistance(pair))

\* The distance is a number below the minimum setback.
BelowSetback(distance) ==
    distance # NaN /\ distance.val < Dist(MIN_SETBACK_DISTANCE).val

\* C2: a compliant verdict quotes the distance of the last pair evaluated,
\* which is at least 10; the pairs evaluated are exactly the pairs up to it
\* in the order outer buildings, inner boundaries, so nothing after it is
\* evaluated; no pair before it qualifies, and each pair before it whose
\* entities have all their numeric fields has a distance below 10.
C2_FirstQualifyingPairQuoted ==
    (Validated /\ Verdict.compliant) =>
        LET n == Len(evaluated)
            nb == Len(boundaries)
        IN  /\ n >= 1
            /\ \A k \in 1..n :
                   evaluated[k] = <<((k - 1) \div nb) + 1, ((k - 1) % nb) + 1>>
            /\ \A k \in 1..(n - 1) :
                   /\ ~Qualifies(PairDistance(evaluated[k]))
                   /\ ~MalformedPair(evaluated[k]) =>
                          BelowSetback(PairDistance(evaluated[k]))
            /\ Qualifies(PairDistance(evaluated[n]))
            /\ Verdict.message = CompliantMessage(PairDistance(evaluated[n]))

\* Two buildings and two boundaries: both pairs of the first building are
\* evaluated and are below 10, the first pair of the second building
\* triggers the verdict, and the last pair, never evaluated, is farther than
\* the quoted one.
C2_Witness ==
    /\ Validated
    /\ Verdict.compliant
    /\ Len(buildings) = 2
    /\ Len(boundaries) = 2
    /\ evaluated = << <<1, 1>>, <<1, 2>>, <<2, 1>> >>
    /\ BelowSetback(PairDistance(<<1, 1>>))
    /\ BelowSetback(PairDistance(<<1, 2>>))
    /\ PairDistance(<<2, 2>>) # NaN
    /\ PairDistance(<<2, 2>>).val > PairDistance(<<2, 1>>).val

\* C3: with no buildings, no boundaries or no qualifying pair, validation
\* returns without throwing, and the verdict is not compliant with the fixed
\* message, which quotes no distance.
C3_NoQualifyingPairIsNonCompliant ==
    (/\ Validated
     /\ \A pair \in AllPairs : ~Qualifies(PairDistance(pair)))
    => /\ failure # "validation"
       /\ Verdict.compliant = FALSE
       /\ Verdict.message =
              <<"Building does not meet the 10-ft setback requirement on any side.">>

\* No buildings and some boundaries.
C3_Witness ==
    /\ Validated
    /\ buildings = <<>>
    /\ boundaries # <<>>
    /\ ~Verdict.compliant

\* C4: buildings are exactly the entities of layer 'BUILDING' and boundaries
\* exactly those of layer 'BOUNDARY', both in input order; every other
\* entity is dropped, and the three counts add up to the input length.
C4_ClassificationPartitions ==
    Validated =>
        LET ignored == { k \in 1..Len(entities) :
                           ~IsBuilding(entities[k]) /\ ~IsBoundary(entities[k]) }
        IN  /\ buildings = SelectSeq(entities, IsBuilding)
            /\ boundaries = SelectSeq(entities, IsBoundary)
            /\ Len(buildings) + Len(boundaries) + Cardinality(ignored)
                   = Len(entities)

\* A building, a boundary and an entity of layer 'building' in one input.
C4_Witness ==
    /\ Validated
    /\ Len(entities) = 3
    /\ Len(buildings) = 1
    /\ Len(boundaries) = 1
    /\ \E k \in 1..3 : entities[k].layer = "building"

\* C5: once the response is sent, neither the uploaded file nor the
\* converted file exists.
C5_TemporaryFilesDeleted ==
    pc = "done" =>
        /\ reqFile # Undefined => reqFile.path \notin files
        /\ outputFilePath \notin files

\* C6 as stated: every entity with all its numeric fields is at distance 0
\* from itself, and a lone building and boundary of identical geometry are
\* never compliant.
C6_SelfDistanceZero ==
    Validated =>
        /\ \A k \in 1..Len(entities) :
               ~Malformed(entities[k]) =>
                   calculateDistance(entities[k], entities[k]) = Dist(0)
        /\ (/\ Len(buildings) = 1
            /\ Len(boundaries) = 1
            /\ ~Malformed(buildings[1])
            /\ SameGeometry(buildings[1], boundaries[1]))
           => ~Verdict.compliant

\* C6, amended: every entity with all its numeric fields and non-negative
\* width and height is at distance 0 from itself, and a lone building and
\* boundary of identical such geometry are never compliant.
C6_SelfDistanceZeroNonNegativeExtents ==
    Validated =>
        /\ \A k \in 1..Len(entities) :
               NonNegativeExtents(entities[k]) =>
                   calculateDistance(entities[k], entities[k]) = Dist(0)
        /\ (/\ Len(buildings) = 1
            /\ Len(boundaries) = 1
            /\ NonNegativeExtents(buildings[1])
            /\ SameGeometry(buildings[1], boundaries[1]))
           => ~Verdict.compliant

\* One building and one boundary with the same centre and the same
\* non-negative extents, evaluated.
C6_Witness ==
    /\ Validated
    /\ Len(buildings) = 1
    /\ Len(boundaries) = 1
    /\ NonNegativeExtents(buildings[1])
    /\ SameGeometry(buildings[1], boundaries[1])
    /\ evaluated = << <<1, 1>> >>
    /\ ~Verdict.compliant

\* C7: swapping the arguments changes neither axis gap nor the distance
\* (a NaN stays a NaN).
C7_DistanceSymmetric ==
    \A i, j \in 1..Len(entities) :
        /\ xDist(entities[i], entities[j]) = xDist(entities[j], entities[i])
        /\ yDist(entities[i], entities[j]) = yDist(entities[j], entities[i])
        /\ calculateDistance(entities[i], entities[j])
               = calculateDistance(entities[j], entities[i])

\* An evaluated pair whose entities are apart on both axes.
C7_Witness ==
    /\ Validated
    /\ \E k \in 1..Len(evaluated) :
           LET b == buildings[evaluated[k][1]]
               d == boundaries[evaluated[k][2]]
           IN  /\ xDist(b, d) # NaN /\ xDist(b, d).val > 0
               /\ yDist(b, d) # NaN /\ yDist(b, d).val > 0

\* C8: a pair with an absent numeric field has the distance NaN and is never
\* the pair that triggers a compliant verdict; validation does not throw,
\* and when every pair is malformed the verdict is the fixed non-compliant
\* one.
C8_MalformedPairNeverCompliant ==
    Validated =>
        /\ failure # "validation"
        /\ \A pair \in AllPairs : MalformedPair(pair) => PairDistance(pair) = NaN
        /\ Verdict.compliant => ~MalformedPair(evaluated[Len(evaluated)])
        /\ (\A pair \in AllPairs : MalformedPair(pair)) =>
               Verdict = [compliant |-> FALSE, message |-> NonCompliantMessage]

\* Every pair is malformed and at least one was evaluated.
C8_Witness ==
    /\ Validated
    /\ evaluated # <<>>
    /\ \A pair \in AllPairs : MalformedPair(pair)
    /\ ~Verdict.compliant

\* C9: when the conversion or the validation has thrown, checkSetbackDistance
\* was not called and exactly one response was sent, with status 500 and an
\* error message.
C9_UpstreamFailureIsOneError ==
    failure \in {"conversion", "validation"} =>
        /\ pc = "done"
        /\ checkCalls = 0
        /\ Len(responses) = 1
        /\ responses[1].status = 500
        /\ DOMAIN responses[1].body = {"error"}

\* The conversion succeeded and reading or parsing the file threw.
C9_Witness ==
    /\ pc = "done"
    /\ failure = "validation"
    /\ dxfFilePath # NoPath

\* C10: when conversion and validation have both succeeded, the response is
\* the validation result.
C10_SuccessRespondsWithVerdict ==
    (pc = "done" /\ dxfFilePath # NoPath /\ validationResult # Undefined) =>
        responses = <<JsonResponse(validationResult)>>

====
